---- MODULE Spec2Model ----
(***************************************************************************)
(* Model of the feature generators of jra-racing-roi-analysis:             *)
(*   src/src/features/blood_features.py   (BloodFeatureGenerator)          *)
(*   src/src/features/jockey_features.py  (JockeyFeatureGenerator)         *)
(*                                                                         *)
(* The generators are stateless: every public operation sends one or more  *)
(* SQL queries to the data source and reshapes the answer.  The state of   *)
(* the model is the data source (the horse registry jvd_um and the race    *)
(* results jvd_se joined with their races jvd_ra), the last operation      *)
(* called with its arguments, and what it returned.  The SQL is modelled   *)
(* by what it computes: WHERE as a filter on the rows, GROUP BY as a       *)
(* partition, the aggregates as sums over the multiset of rows, NUMERIC    *)
(* arithmetic as exact fractions, ROUND(x, 2) as a number of hundredths.   *)
(***************************************************************************)
EXTENDS Integers, Sequences, FiniteSets, Bags, TLC

VARIABLES um, db, op, result, sire_ranking

vars == <<um, db, op, result, sire_ranking>>

(***************************************************************************)
(* SQL values.  NULL (and Python's None) is the empty tuple, a present     *)
(* value v is <<v>>.  Character strings the code looks into (track_code,   *)
(* kakutei_chakujun, names that are TRIMmed) are tuples of one-character   *)
(* strings.                                                                *)
(***************************************************************************)
NULL == <<>>

Some(v) == <<v>>

IsNull(x) == x = NULL

Val(x) == x[1]

Digits == {"0", "1", "2", "3", "4", "5", "6", "7", "8", "9"}

\* kakutei_chakujun ~ '^[0-9]+$'
IsNumeric(s) == Len(s) > 0 /\ \A i \in 1..Len(s) : s[i] \in Digits

\* SUBSTRING(s, 1, 1)
Substring1(s) == IF Len(s) = 0 THEN <<>> ELSE <<s[1]>>

RECURSIVE LTrim(_)
LTrim(s) == IF s # <<>> /\ Head(s) = " " THEN LTrim(Tail(s)) ELSE s

RECURSIVE RTrim(_)
RTrim(s) == IF s # <<>> /\ s[Len(s)] = " " THEN RTrim(SubSeq(s, 1, Len(s) - 1)) ELSE s

\* TRIM(x): NULL stays NULL; a name is held as Some(<characters>)
Trim(x) == IF IsNull(x) THEN NULL ELSE Some(LTrim(RTrim(Val(x))))

(***************************************************************************)
(* NUMERIC arithmetic: a value is the exact fraction [n, d], d > 0.        *)
(***************************************************************************)
Num(n) == [n |-> n, d |-> 1]

NumDiv(x, k) == [n |-> x.n, d |-> x.d * k]

NumMul(x, k) == [n |-> x.n * k, d |-> x.d]

NumAdd(x, y) ==
    IF x.d = y.d THEN [n |-> x.n + y.n, d |-> x.d]
    ELSE [n |-> x.n * y.d + y.n * x.d, d |-> x.d * y.d]

NumGreater(x, y) == x.n * y.d > y.n * x.d

NumEqual(x, y) == x.n * y.d = y.n * x.d

\* ROUND(x, 2) of a non-negative NUMERIC, as a number of hundredths
\* (PostgreSQL rounds a NUMERIC half away from zero)
Round2(x) == (2 * 100 * x.n + x.d) \div (2 * x.d)

\* x / NULLIF(k, 0): NULL when k = 0
DivNullIf(x, k) == IF k = 0 THEN NULL ELSE Some(NumDiv(x, k))

\* ROUND(<nullable> * 100, 2)
RoundPct(q) == IF IsNull(q) THEN NULL ELSE Some(Round2(NumMul(Val(q), 100)))

\* ROUND(<nullable>, 2)
RoundNum(q) == IF IsNull(q) THEN NULL ELSE Some(Round2(Val(q)))

(***************************************************************************)
(* Tables as multisets of rows.                                            *)
(***************************************************************************)
RECURSIVE SumFn(_)
SumFn(f) ==
    IF DOMAIN f = {} THEN 0
    ELSE LET x == CHOOSE y \in DOMAIN f : TRUE
         IN  f[x] + SumFn([y \in DOMAIN f \ {x} |-> f[y]])

RECURSIVE SumNumFn(_)
SumNumFn(f) ==
    IF DOMAIN f = {} THEN Num(0)
    ELSE LET x == CHOOSE y \in DOMAIN f : TRUE
         IN  NumAdd(f[x], SumNumFn([y \in DOMAIN f \ {x} |-> f[y]]))

\* the rows of B that satisfy P, with their multiplicities
Where(B, P(_)) == [r \in {x \in DOMAIN B : P(x)} |-> B[r]]

\* COUNT(*)
Count(B) == SumFn(B)

\* COUNT(*) FILTER (WHERE P)
CountFilter(B, P(_)) == Count(Where(B, P))

\* SUM(F) of a NUMERIC expression over the rows of B (0 on no row is never
\* asked for: every aggregate below runs over a group or is guarded by NULLIF)
SumNum(B, F(_)) == SumNumFn([r \in DOMAIN B |-> NumMul(F(r), B[r])])

\* AVG(F) over the rows where F is not NULL; NULL when there is none
Avg(B, F(_)) ==
    LET D == Where(B, LAMBDA r : ~IsNull(F(r)))
    IN  DivNullIf(SumNum(D, LAMBDA r : Val(F(r))), Count(D))

(***************************************************************************)
(* The data source.                                                        *)
(*   um : jvd_um, keyed by ketto_toroku_bango; a row holds bamei, the sire *)
(*        (ketto_joho_01a id, ketto_joho_01b name) and the dam (02a, 02b). *)
(*   db : jvd_se JOIN jvd_ra on the race key, as a multiset of rows.       *)
(***************************************************************************)
UnknownAncestor == "0000000000"

UmRow(bamei, sid, sname, did, dname) ==
    [bamei |-> bamei, ketto_joho_01a |-> sid, ketto_joho_01b |-> sname,
     ketto_joho_02a |-> did, ketto_joho_02b |-> dname]

\* JOIN jvd_um u ON s.ketto_toroku_bango = u.ketto_toroku_bango
JoinUm(B) == Where(B, LAMBDA r : r.ketto_toroku_bango \in DOMAIN um)

U(r) == um[r.ketto_toroku_bango]

\* a Python value formatted into the SQL text between quotes: None reads 'None'
SqlLiteral(x) == IF IsNull(x) THEN "None" ELSE Val(x)

\* column = 'literal' (never true of a NULL column)
SqlEq(col, lit) == ~IsNull(col) /\ Val(col) = lit

\* column != 'literal' (never true of a NULL column)
SqlNe(col, lit) == ~IsNull(col) /\ Val(col) # lit

(***************************************************************************)
(* Categorical buckets (the CASE expressions of the queries).              *)
(*   track type: "shiba" = turf, "dirt" = dirt, "sonota" = other           *)
(*   going: "ryo" good, "yayaomo" yielding, "omo" soft, "furyo" heavy,     *)
(*          "fumei" unknown                                                *)
(***************************************************************************)
track_type(r) ==
    CASE Substring1(r.track_code) = <<"1">> -> "shiba"
      [] Substring1(r.track_code) = <<"2">> -> "dirt"
      [] OTHER -> "sonota"

\* (mutant) the turf going is read whatever the surface
TurfGoingOnly(r) ==
    LET t == Substring1(r.track_code)
        s == r.babajotai_code_shiba
    IN  CASE t \in {<<"1">>, <<"2">>} /\ s = "1" -> "ryo"
          [] t \in {<<"1">>, <<"2">>} /\ s = "2" -> "yayaomo"
          [] t \in {<<"1">>, <<"2">>} /\ s = "3" -> "omo"
          [] t \in {<<"1">>, <<"2">>} /\ s = "4" -> "furyo"
          [] OTHER -> "fumei"

track_condition(r) ==
    LET t == Substring1(r.track_code)
        s == r.babajotai_code_shiba
        d == r.babajotai_code_dirt
    IN  CASE t = <<"1">> /\ s = "1" -> "ryo"
          [] t = <<"1">> /\ s = "2" -> "yayaomo"
          [] t = <<"1">> /\ s = "3" -> "omo"
          [] t = <<"1">> /\ s = "4" -> "furyo"
          [] t = <<"2">> /\ d = "1" -> "ryo"
          [] t = <<"2">> /\ d = "2" -> "yayaomo"
          [] t = <<"2">> /\ d = "3" -> "omo"
          [] t = <<"2">> /\ d = "4" -> "furyo"
          [] OTHER -> "fumei"

\* (mutant) the raw odds, not divided by ten
RawOdds(r) == Num(Val(r.tansho_odds))

\* CAST(s.tansho_odds AS NUMERIC) / 10.0
win_odds(r) == NumDiv(Num(Val(r.tansho_odds)), 10)

\* CAST(s.tansho_ninkijun AS INTEGER); NULL stays NULL
popularity(r) == r.tansho_ninkijun

\* finish_pos = '01'
IsWin(r) == r.kakutei_chakujun = <<"0", "1">>

\* (mutant) the places behind the winner
IsPlaced(r) == r.kakutei_chakujun \in {<<"0", "2">>, <<"0", "3">>}

\* finish_pos IN ('01', '02', '03')
IsTop3(r) == r.kakutei_chakujun \in {<<"0", "1">>, <<"0", "2">>, <<"0", "3">>}

\* (mutant) the sentinel codes pass
FinishPosNumeric(r) == IsNumeric(r.kakutei_chakujun)

\* s.kakutei_chakujun ~ '^[0-9]+$' AND s.kakutei_chakujun NOT IN ('00', '99')
FinishPosValid(r) ==
    /\ IsNumeric(r.kakutei_chakujun)
    /\ r.kakutei_chakujun \notin {<<"0", "0">>, <<"9", "9">>}

\* SUM(CASE WHEN finish_pos = '01' THEN win_odds ELSE 0 END)
SumWinOdds(B) == SumNum(B, LAMBDA r : IF IsWin(r) THEN win_odds(r) ELSE Num(0))

\* ROUND(COUNT(*) FILTER (WHERE finish_pos = '01')::NUMERIC / NULLIF(COUNT(*), 0) * 100, 2)
WinRate(B) == RoundPct(DivNullIf(Num(CountFilter(B, IsWin)), Count(B)))

\* ROUND(COUNT(*) FILTER (WHERE finish_pos IN ('01','02','03'))::NUMERIC / NULLIF(COUNT(*), 0) * 100, 2)
Top3Rate(B) == RoundPct(DivNullIf(Num(CountFilter(B, IsTop3)), Count(B)))

\* ROUND(SUM(CASE WHEN finish_pos = '01' THEN win_odds ELSE 0 END) / NULLIF(COUNT(*), 0) * 100, 2)
RoiPercentage(B) == RoundPct(DivNullIf(SumWinOdds(B), Count(B)))

\* ROUND(AVG(CASE WHEN finish_pos = '01' THEN win_odds ELSE NULL END), 2)
AvgWinOdds(B) == RoundNum(Avg(B, LAMBDA r : IF IsWin(r) THEN Some(win_odds(r)) ELSE NULL))

\* ROUND(AVG(popularity), 2)
AvgPopularity(B) ==
    RoundNum(Avg(B, LAMBDA r : IF IsNull(popularity(r)) THEN NULL ELSE Some(Num(Val(popularity(r))))))

\* COUNT(*) FILTER (WHERE popularity >= lo AND popularity <= hi AND finish_pos = '01')
PopularityWins(B, lo, hi) ==
    CountFilter(B, LAMBDA r : /\ ~IsNull(popularity(r))
                              /\ Val(popularity(r)) >= lo
                              /\ Val(popularity(r)) <= hi
                              /\ IsWin(r))

(***************************************************************************)
(* What a public operation hands back: the value it returns, or the        *)
(* exception that leaves it (raised).  pd.read_sql either answers or       *)
(* raises; fails is the set of the operation's queries (numbered in the    *)
(* order the code issues them) that raise when issued.                     *)
(***************************************************************************)
Returns(v) == [raised |-> FALSE, value |-> v]

Raises == [raised |-> TRUE, value |-> NULL]

\* pd.DataFrame(): no row
EmptyFrame == <<>>

\* no call is under way: the operations are synchronous and called one at a
\* time, each on the data as it is when the call is made
NoOp == [name |-> "none", fails |-> {}]

\* the orders ORDER BY may give the rows of S: every enumeration of S in which
\* no row comes after one that Before puts strictly after it (ties in any order)
RECURSIVE Enumerations(_)
Enumerations(S) ==
    IF S = {} THEN {<<>>}
    ELSE UNION {{<<x>> \o t : t \in Enumerations(S \ {x})} : x \in S}

OrderBy(S, Before(_, _)) ==
    {s \in Enumerations(S) :
        \A i \in 1..Len(s) : \A j \in 1..Len(s) : i < j => ~Before(s[j], s[i])}

\* ORDER BY x DESC on a nullable number: PostgreSQL puts NULL first
DescBefore(a, b) ==
    IF IsNull(a) THEN ~IsNull(b)
    ELSE ~IsNull(b) /\ Val(a) > Val(b)

(***************************************************************************)
(* BloodFeatureGenerator.get_sire_track_condition_roi                      *)
(***************************************************************************)
\* the CTE sire_track_results of the rollup (kaisai_nen and since_year are
\* both four-digit years, for which the text comparison is the numeric one)
sire_track_results(since_year) ==
    Where(JoinUm(db), LAMBDA r :
        /\ FinishPosValid(r)
        /\ r.kaisai_nen >= since_year
        /\ SqlNe(U(r).ketto_joho_01a, UnknownAncestor)
        /\ ~IsNull(r.tansho_odds))

\* GROUP BY sire_id, sire_name, track_type, track_condition
SireGroupKey(r) ==
    [sire_id |-> U(r).ketto_joho_01a, sire_name |-> Trim(U(r).ketto_joho_01b),
     track_type |-> track_type(r), track_condition |-> track_condition(r)]

\* the SELECT list of the rollup for the group k, whose rows are G
SireRollupRow(k, G) ==
    [sire_id |-> k.sire_id, sire_name |-> k.sire_name,
     track_type |-> k.track_type, track_condition |-> k.track_condition,
     total_races |-> Count(G),
     wins |-> CountFilter(G, IsWin),
     win_rate |-> WinRate(G),
     roi_percentage |-> RoiPercentage(G),
     avg_win_odds |-> AvgWinOdds(G),
     avg_popularity |-> AvgPopularity(G),
     longshot_wins |-> PopularityWins(G, 9, 999)]

\* (mutant) the threshold is exclusive
HavingMoreThan(G, min_races) == Count(G) > min_races

\* HAVING COUNT(*) >= {min_races}
Having(G, min_races) == Count(G) >= min_races

\* the rows the rollup's SELECT ... GROUP BY ... HAVING gives
SireRollupRows(since_year, min_races) ==
    LET T == sire_track_results(since_year)
        keys == {SireGroupKey(r) : r \in DOMAIN T}
        grp(k) == Where(T, LAMBDA r : SireGroupKey(r) = k)
    IN  {SireRollupRow(k, grp(k)) : k \in {x \in keys : Having(grp(x), min_races)}}

\* (mutant) the lowest ROI first
ByRoiAsc(a, b) == DescBefore(b.roi_percentage, a.roi_percentage)

\* ORDER BY roi_percentage DESC
ByRoiDesc(a, b) == DescBefore(a.roi_percentage, b.roi_percentage)

\* try: return pd.read_sql(...)  except Exception: return pd.DataFrame()
SireRollupHandler(r) == IF r.raised THEN Returns(EmptyFrame) ELSE r

get_sire_track_condition_roi(since_year, min_races, fails) ==
    /\ op = NoOp
    /\ op' = [name |-> "get_sire_track_condition_roi", since_year |-> since_year,
              min_races |-> min_races, fails |-> fails]
    /\ \E df \in OrderBy(SireRollupRows(since_year, min_races), ByRoiDesc) :
          result' = SireRollupHandler(IF 1 \in fails THEN Raises ELSE Returns(df))
    /\ UNCHANGED <<um, db, sire_ranking>>

(***************************************************************************)
(* BloodFeatureGenerator.get_horse_sire_track_roi_feature                  *)
(***************************************************************************)
\* the minimum number of races of the rank query (HAVING COUNT(*) >= 20)
RankMinRaces == 20

\* the feature record; roi and win rate in hundredths, None as NULL
SireFeature(name, roi, win_rate, races, rank) ==
    [sire_name |-> name, sire_track_roi |-> roi, sire_track_win_rate |-> win_rate,
     sire_track_races |-> races, sire_track_roi_rank |-> rank]

\* the record of the no-data and of the error returns: 0.0, 0.0, 0, 0
SirePlaceholder(name) == SireFeature(name, Some(0), Some(0), Some(0), Some(0))

\* first query: SELECT sire_id, TRIM(sire_name) FROM jvd_um WHERE ketto_toroku_bango = horse_id
sire_info(horse_id) ==
    IF horse_id \in DOMAIN um
    THEN <<[sire_id |-> um[horse_id].ketto_joho_01a,
            sire_name |-> Trim(um[horse_id].ketto_joho_01b)]>>
    ELSE EmptyFrame

\* the CTE sire_track_results of roi_query, with its outer WHERE on the segment
SireSegmentResults(sire_id, race_track_type, race_condition) ==
    Where(JoinUm(db), LAMBDA r :
        /\ FinishPosValid(r)
        /\ SqlEq(U(r).ketto_joho_01a, SqlLiteral(sire_id))
        /\ ~IsNull(r.tansho_odds)
        /\ track_type(r) = race_track_type
        /\ track_condition(r) = race_condition)

\* (mutant) the statistics of a sample below the minimum are zeroed
RoiInfoThresholded(sire_id, race_track_type, race_condition) ==
    LET G == SireSegmentResults(sire_id, race_track_type, race_condition)
    IN  IF Count(G) < RankMinRaces
        THEN <<[total_races |-> Some(0), wins |-> Some(0),
                win_rate |-> Some(0), roi_percentage |-> Some(0)]>>
        ELSE <<[total_races |-> Some(Count(G)),
                wins |-> Some(CountFilter(G, IsWin)),
                win_rate |-> WinRate(G),
                roi_percentage |-> RoiPercentage(G)]>>

\* roi_query: aggregates with no GROUP BY, so one row whatever the rows are
roi_info(sire_id, race_track_type, race_condition) ==
    LET G == SireSegmentResults(sire_id, race_track_type, race_condition)
    IN  <<[total_races |-> Some(Count(G)),
           wins |-> Some(CountFilter(G, IsWin)),
           win_rate |-> WinRate(G),
           roi_percentage |-> RoiPercentage(G)]>>

\* the CTE sire_track_results of rank_query, with the WHERE on the segment
RankSegmentResults(race_track_type, race_condition) ==
    Where(JoinUm(db), LAMBDA r :
        /\ FinishPosValid(r)
        /\ ~IsNull(r.tansho_odds)
        /\ track_type(r) = race_track_type
        /\ track_condition(r) = race_condition)

\* (mutant) half the minimum is enough to be ranked
RankHavingTen(G) == Count(G) >= 10

\* HAVING COUNT(*) >= 20 of rank_query
RankHaving(G) == Count(G) >= RankMinRaces

\* GROUP BY sire_id, track_type, track_condition HAVING COUNT(*) >= 20:
\* the sire ids ranked in the segment
RankedSires(race_track_type, race_condition) ==
    LET T == RankSegmentResults(race_track_type, race_condition)
    IN  {k \in {U(r).ketto_joho_01a : r \in DOMAIN T} :
            RankHaving(Where(T, LAMBDA r : U(r).ketto_joho_01a = k))}

\* SUM(CASE WHEN finish_pos = '01' THEN win_odds ELSE 0 END) / NULLIF(COUNT(*), 0)
\* of the sire id k in the segment (not rounded); a ranked group has rows
RankRoi(k, race_track_type, race_condition) ==
    LET G == Where(RankSegmentResults(race_track_type, race_condition),
                   LAMBDA r : U(r).ketto_joho_01a = k)
    IN  NumDiv(SumWinOdds(G), Count(G))

\* ROW_NUMBER() OVER (PARTITION BY track_type, track_condition ORDER BY ... DESC):
\* the numberings the window may give (equal keys are numbered in any order)
RowNumbers(S, key(_)) ==
    {f \in [S -> 1..Cardinality(S)] :
        /\ \A a \in S : \A b \in S : a # b => f[a] # f[b]
        /\ \A a \in S : \A b \in S : NumGreater(key(a), key(b)) => f[a] < f[b]}

\* the CTE sire_ranking: sire id -> roi_rank
SireRankings(race_track_type, race_condition) ==
    RowNumbers(RankedSires(race_track_type, race_condition),
               LAMBDA k : RankRoi(k, race_track_type, race_condition))

\* SELECT roi_rank FROM sire_ranking WHERE sire_id = '{sire_id}'
rank_info(ranking, sire_id) ==
    IF Some(SqlLiteral(sire_id)) \in DOMAIN ranking
    THEN <<[roi_rank |-> Some(ranking[Some(SqlLiteral(sire_id))])]>>
    ELSE EmptyFrame

\* (mutant) a failed rank query leaves a rank behind
RoiRankStale(ranking, sire_id, fails) ==
    IF rank_info(ranking, sire_id) # EmptyFrame
    THEN rank_info(ranking, sire_id)[1].roi_rank
    ELSE Some(0)

\* the inner try around the rank query:
\*   roi_rank = rank_info.iloc[0]['roi_rank'] if not rank_info.empty else 0
\*   except Exception: roi_rank = 0
RoiRank(ranking, sire_id, fails) ==
    IF 3 \in fails THEN Some(0)
    ELSE IF rank_info(ranking, sire_id) # EmptyFrame
         THEN rank_info(ranking, sire_id)[1].roi_rank
         ELSE Some(0)

\* the body of the outer try, the rank query having answered `ranking`
SireFeatureBody(horse_id, race_track_type, race_condition, fails, ranking) ==
    IF 1 \in fails THEN Raises
    ELSE IF sire_info(horse_id) = EmptyFrame THEN Returns(SirePlaceholder(NULL))
    ELSE LET sire_id == sire_info(horse_id)[1].sire_id
             sire_name == sire_info(horse_id)[1].sire_name
             roi == roi_info(sire_id, race_track_type, race_condition)
         IN  IF 2 \in fails THEN Raises
             ELSE IF roi = EmptyFrame \/ IsNull(roi[1].total_races)
                  THEN Returns(SirePlaceholder(sire_name))
             ELSE Returns(SireFeature(sire_name, roi[1].roi_percentage, roi[1].win_rate,
                                      roi[1].total_races, RoiRank(ranking, sire_id, fails)))

\* except Exception: return the placeholder with no name
SireFeatureHandler(r) == IF r.raised THEN Returns(SirePlaceholder(NULL)) ELSE r

\* whether the call reaches the rank query and the query answers
RankQueryAnswers(horse_id, fails) ==
    /\ fails \cap {1, 2, 3} = {}
    /\ horse_id \in DOMAIN um

get_horse_sire_track_roi_feature(horse_id, race_track_type, race_condition, fails) ==
    /\ op = NoOp
    /\ op' = [name |-> "get_horse_sire_track_roi_feature", horse_id |-> horse_id,
              race_track_type |-> race_track_type, race_condition |-> race_condition,
              fails |-> fails]
    /\ \E ranking \in SireRankings(race_track_type, race_condition) :
          /\ result' = SireFeatureHandler(
                 SireFeatureBody(horse_id, race_track_type, race_condition, fails, ranking))
          /\ sire_ranking' = IF RankQueryAnswers(horse_id, fails) THEN ranking ELSE <<>>
    /\ UNCHANGED <<um, db>>

(***************************************************************************)
(* JockeyFeatureGenerator: the three rollups                               *)
(*   distance: "tankyori" sprint, "chukyori" mid, "chokyori" long          *)
(*   popularity: "ninki" favourite (1-3), "chuana" mid (4-8),              *)
(*               "ooana" longshot                                          *)
(***************************************************************************)
\* CASE WHEN r.keibajo_code = '01' THEN ... ELSE r.keibajo_code END
course_name(keibajo_code) ==
    CASE keibajo_code = "01" -> "Sapporo"
      [] keibajo_code = "02" -> "Hakodate"
      [] keibajo_code = "03" -> "Fukushima"
      [] keibajo_code = "04" -> "Niigata"
      [] keibajo_code = "05" -> "Tokyo"
      [] keibajo_code = "06" -> "Nakayama"
      [] keibajo_code = "07" -> "Chukyo"
      [] keibajo_code = "08" -> "Kyoto"
      [] keibajo_code = "09" -> "Hanshin"
      [] keibajo_code = "10" -> "Kokura"
      [] OTHER -> keibajo_code

distance_category(r) ==
    CASE r.kyori <= 1400 -> "tankyori"
      [] r.kyori <= 2000 -> "chukyori"
      [] OTHER -> "chokyori"

\* the CASE of jockey_popularity_results (its rows have a popularity rank)
popularity_category(r) ==
    CASE Val(popularity(r)) >= 1 /\ Val(popularity(r)) <= 3 -> "ninki"
      [] Val(popularity(r)) >= 4 /\ Val(popularity(r)) <= 8 -> "chuana"
      [] OTHER -> "ooana"

\* the CTE jockey_course_results
jockey_course_results(since_year) ==
    Where(db, LAMBDA r :
        /\ FinishPosValid(r)
        /\ r.kaisai_nen >= since_year
        /\ ~IsNull(r.tansho_odds))

\* GROUP BY jockey_id, jockey_name, course_name, track_type, distance_category
JockeyCourseKey(r) ==
    [jockey_id |-> r.kishu_code, jockey_name |-> Trim(r.kishumei_ryakusho),
     course_name |-> course_name(r.keibajo_code), track_type |-> track_type(r),
     distance_category |-> distance_category(r)]

JockeyCourseRow(k, G) ==
    [jockey_id |-> k.jockey_id, jockey_name |-> k.jockey_name,
     course_name |-> k.course_name, track_type |-> k.track_type,
     distance_category |-> k.distance_category,
     total_races |-> Count(G),
     wins |-> CountFilter(G, IsWin),
     top3_finishes |-> CountFilter(G, IsTop3),
     win_rate |-> WinRate(G),
     top3_rate |-> Top3Rate(G),
     roi_percentage |-> RoiPercentage(G),
     avg_win_odds |-> AvgWinOdds(G),
     avg_popularity |-> AvgPopularity(G),
     middle_odds_wins |-> PopularityWins(G, 4, 8),
     longshot_wins |-> PopularityWins(G, 9, 999)]

JockeyCourseRows(since_year, min_races) ==
    LET T == jockey_course_results(since_year)
        keys == {JockeyCourseKey(r) : r \in DOMAIN T}
        grp(k) == Where(T, LAMBDA r : JockeyCourseKey(r) = k)
    IN  {JockeyCourseRow(k, grp(k)) : k \in {x \in keys : Having(grp(x), min_races)}}

\* try: return pd.read_sql(...)  except Exception: return pd.DataFrame()
JockeyCourseHandler(r) == IF r.raised THEN Returns(EmptyFrame) ELSE r

get_jockey_course_roi(since_year, min_races, fails) ==
    /\ op = NoOp
    /\ op' = [name |-> "get_jockey_course_roi", since_year |-> since_year,
              min_races |-> min_races, fails |-> fails]
    /\ \E df \in OrderBy(JockeyCourseRows(since_year, min_races), ByRoiDesc) :
          result' = JockeyCourseHandler(IF 1 \in fails THEN Raises ELSE Returns(df))
    /\ UNCHANGED <<um, db, sire_ranking>>

\* the CTE jockey_popularity_results
jockey_popularity_results(since_year) ==
    Where(db, LAMBDA r :
        /\ FinishPosValid(r)
        /\ r.kaisai_nen >= since_year
        /\ ~IsNull(r.tansho_odds)
        /\ ~IsNull(r.tansho_ninkijun))

\* GROUP BY jockey_id, jockey_name, popularity_category
JockeyPopularityKey(r) ==
    [jockey_id |-> r.kishu_code, jockey_name |-> Trim(r.kishumei_ryakusho),
     popularity_category |-> popularity_category(r)]

JockeyPopularityRow(k, G) ==
    [jockey_id |-> k.jockey_id, jockey_name |-> k.jockey_name,
     popularity_category |-> k.popularity_category,
     total_races |-> Count(G),
     wins |-> CountFilter(G, IsWin),
     top3_finishes |-> CountFilter(G, IsTop3),
     win_rate |-> WinRate(G),
     top3_rate |-> Top3Rate(G),
     roi_percentage |-> RoiPercentage(G),
     avg_win_odds |-> AvgWinOdds(G)]

JockeyPopularityRows(since_year, min_races) ==
    LET T == jockey_popularity_results(since_year)
        keys == {JockeyPopularityKey(r) : r \in DOMAIN T}
        grp(k) == Where(T, LAMBDA r : JockeyPopularityKey(r) = k)
    IN  {JockeyPopularityRow(k, grp(k)) : k \in {x \in keys : Having(grp(x), min_races)}}

\* the place of a popularity label in the text order of the labels (by code
\* point: the label of 4-8 first, then the label of 1-3, then the longshots')
CategoryOrder(c) == CASE c = "chuana" -> 1 [] c = "ninki" -> 2 [] OTHER -> 3

\* ORDER BY popularity_category, roi_percentage DESC
ByCategoryThenRoiDesc(a, b) ==
    \/ CategoryOrder(a.popularity_category) < CategoryOrder(b.popularity_category)
    \/ /\ a.popularity_category = b.popularity_category
       /\ DescBefore(a.roi_percentage, b.roi_percentage)

\* try: return pd.read_sql(...)  except Exception: return pd.DataFrame()
JockeyPopularityHandler(r) == IF r.raised THEN Returns(EmptyFrame) ELSE r

get_jockey_popularity_roi(since_year, min_races, fails) ==
    /\ op = NoOp
    /\ op' = [name |-> "get_jockey_popularity_roi", since_year |-> since_year,
              min_races |-> min_races, fails |-> fails]
    /\ \E df \in OrderBy(JockeyPopularityRows(since_year, min_races), ByCategoryThenRoiDesc) :
          result' = JockeyPopularityHandler(IF 1 \in fails THEN Raises ELSE Returns(df))
    /\ UNCHANGED <<um, db, sire_ranking>>

\* the CTE jockey_surface_results
jockey_surface_results(since_year) ==
    Where(db, LAMBDA r :
        /\ FinishPosValid(r)
        /\ r.kaisai_nen >= since_year
        /\ ~IsNull(r.tansho_odds))

\* GROUP BY jockey_id, jockey_name, track_type, surface_condition
JockeySurfaceKey(r) ==
    [jockey_id |-> r.kishu_code, jockey_name |-> Trim(r.kishumei_ryakusho),
     track_type |-> track_type(r), surface_condition |-> track_condition(r)]

JockeySurfaceRow(k, G) ==
    [jockey_id |-> k.jockey_id, jockey_name |-> k.jockey_name,
     track_type |-> k.track_type, surface_condition |-> k.surface_condition,
     total_races |-> Count(G),
     wins |-> CountFilter(G, IsWin),
     top3_finishes |-> CountFilter(G, IsTop3),
     win_rate |-> WinRate(G),
     top3_rate |-> Top3Rate(G),
     roi_percentage |-> RoiPercentage(G),
     avg_win_odds |-> AvgWinOdds(G),
     avg_popularity |-> AvgPopularity(G),
     non_favorite_wins |-> PopularityWins(G, 4, 999)]

JockeySurfaceRows(since_year, min_races) ==
    LET T == jockey_surface_results(since_year)
        keys == {JockeySurfaceKey(r) : r \in DOMAIN T}
        grp(k) == Where(T, LAMBDA r : JockeySurfaceKey(r) = k)
    IN  {JockeySurfaceRow(k, grp(k)) : k \in {x \in keys : Having(grp(x), min_races)}}

\* try: return pd.read_sql(...)  except Exception: return pd.DataFrame()
JockeySurfaceHandler(r) == IF r.raised THEN Returns(EmptyFrame) ELSE r

get_jockey_surface_condition_roi(since_year, min_races, fails) ==
    /\ op = NoOp
    /\ op' = [name |-> "get_jockey_surface_condition_roi", since_year |-> since_year,
              min_races |-> min_races, fails |-> fails]
    /\ \E df \in OrderBy(JockeySurfaceRows(since_year, min_races), ByRoiDesc) :
          result' = JockeySurfaceHandler(IF 1 \in fails THEN Raises ELSE Returns(df))
    /\ UNCHANGED <<um, db, sire_ranking>>

(***************************************************************************)
(* JockeyFeatureGenerator.get_jockey_course_feature                        *)
(***************************************************************************)
\* course_code_map.get(course_name); an unknown name is used as the code
course_code(name) ==
    CASE name = "Sapporo" -> "01"
      [] name = "Hakodate" -> "02"
      [] name = "Fukushima" -> "03"
      [] name = "Niigata" -> "04"
      [] name = "Tokyo" -> "05"
      [] name = "Nakayama" -> "06"
      [] name = "Chukyo" -> "07"
      [] name = "Kyoto" -> "08"
      [] name = "Hanshin" -> "09"
      [] name = "Kokura" -> "10"
      [] OTHER -> name

\* the CTE jockey_course_stats
jockey_course_stats(jockey_id, crs_name, trk_type, dist_category) ==
    Where(db, LAMBDA r :
        /\ FinishPosValid(r)
        /\ r.kishu_code = jockey_id
        /\ r.keibajo_code = course_code(crs_name)
        /\ track_type(r) = trk_type
        /\ distance_category(r) = dist_category
        /\ ~IsNull(r.tansho_odds))

\* the CTE jockey_all_stats
jockey_all_stats(jockey_id) ==
    Where(db, LAMBDA r :
        /\ FinishPosValid(r)
        /\ r.kishu_code = jockey_id
        /\ ~IsNull(r.tansho_odds))

\* GROUP BY jockey_id, jockey_name
JockeyKey(r) == [jockey_id |-> r.kishu_code, jockey_name |-> Trim(r.kishumei_ryakusho)]

\* (mutant) a zero denominator gives 0
RatioZeroIf(a, b) ==
    IF IsNull(a) \/ IsNull(b) \/ Val(b) = 0 THEN Some(0)
    ELSE Some(Round2([n |-> Val(a), d |-> Val(b)]))

\* ROUND(a / NULLIF(b, 0), 2) of two percentages held in hundredths
RatioNullIf(a, b) ==
    IF IsNull(a) \/ IsNull(b) \/ Val(b) = 0 THEN NULL
    ELSE Some(Round2([n |-> Val(a), d |-> Val(b)]))

\* one row of the final SELECT: the segment group k with rows G joined to the
\* overall group of the same jockey_id, whose rows are A
JockeyFeatureRow(k, G, A, crs_name, trk_type, dist_category) ==
    [jockey_id |-> k.jockey_id, jockey_name |-> k.jockey_name,
     course_name |-> crs_name, track_type |-> trk_type,
     distance_category |-> dist_category,
     total_races |-> Some(Count(G)),
     wins |-> Some(CountFilter(G, IsWin)),
     top3_finishes |-> Some(CountFilter(G, IsTop3)),
     win_rate |-> WinRate(G),
     top3_rate |-> Top3Rate(G),
     roi_percentage |-> RoiPercentage(G),
     avg_win_odds |-> AvgWinOdds(G),
     avg_popularity |-> AvgPopularity(G),
     middle_odds_wins |-> Some(PopularityWins(G, 4, 8)),
     longshot_wins |-> Some(PopularityWins(G, 9, 999)),
     all_total_races |-> Some(Count(A)),
     all_win_rate |-> WinRate(A),
     all_roi_percentage |-> RoiPercentage(A),
     course_aptitude_index |-> RatioNullIf(RoiPercentage(G), RoiPercentage(A)),
     win_rate_ratio |-> RatioNullIf(WinRate(G), WinRate(A))]

\* FROM aggregate_stats a JOIN all_aggregate_stats all_a ON a.jockey_id = all_a.jockey_id
JockeyFeatureRows(jockey_id, crs_name, trk_type, dist_category) ==
    LET S == jockey_course_stats(jockey_id, crs_name, trk_type, dist_category)
        T == jockey_all_stats(jockey_id)
        skeys == {JockeyKey(r) : r \in DOMAIN S}
        tkeys == {JockeyKey(r) : r \in DOMAIN T}
    IN  {JockeyFeatureRow(k, Where(S, LAMBDA r : JockeyKey(r) = k),
                          Where(T, LAMBDA r : JockeyKey(r) = a),
                          crs_name, trk_type, dist_category) :
            <<k, a>> \in {p \in skeys \X tkeys : p[1].jockey_id = p[2].jockey_id}}

\* the record of the no-data and of the error returns
JockeyPlaceholder(jockey_id, crs_name, trk_type, dist_category) ==
    [jockey_id |-> jockey_id, jockey_name |-> Some(<<>>),
     course_name |-> crs_name, track_type |-> trk_type,
     distance_category |-> dist_category,
     total_races |-> Some(0), wins |-> Some(0), win_rate |-> Some(0),
     roi_percentage |-> Some(0), avg_win_odds |-> Some(0),
     course_aptitude_index |-> Some(0), win_rate_ratio |-> Some(0)]

\* the body of the try, the query having answered the rows df (in some order)
JockeyFeatureBody(jockey_id, crs_name, trk_type, dist_category, fails, df) ==
    IF 1 \in fails THEN Raises
    ELSE IF df = EmptyFrame
         THEN Returns(JockeyPlaceholder(jockey_id, crs_name, trk_type, dist_category))
         ELSE Returns(df[1])

\* except Exception: return the placeholder
JockeyFeatureHandler(r, jockey_id, crs_name, trk_type, dist_category) ==
    IF r.raised
    THEN Returns(JockeyPlaceholder(jockey_id, crs_name, trk_type, dist_category))
    ELSE r

get_jockey_course_feature(jockey_id, crs_name, trk_type, dist_category, fails) ==
    /\ op = NoOp
    /\ op' = [name |-> "get_jockey_course_feature", jockey_id |-> jockey_id,
              course_name |-> crs_name, track_type |-> trk_type,
              distance_category |-> dist_category, fails |-> fails]
    /\ \E df \in Enumerations(JockeyFeatureRows(jockey_id, crs_name, trk_type, dist_category)) :
          result' = JockeyFeatureHandler(
              JockeyFeatureBody(jockey_id, crs_name, trk_type, dist_category, fails, df),
              jockey_id, crs_name, trk_type, dist_category)
    /\ UNCHANGED <<um, db, sire_ranking>>

(***************************************************************************)
(* BloodFeatureGenerator.get_pedigree_tree                                 *)
(*                                                                         *)
(* The returned dict is held as a map from the path of keys that leads to  *)
(* a node (<<>> the root, <<"sire">>, <<"sire", "dam">>, ...) to the       *)
(* node's id and name: a node has the keys 'sire' and 'dam' exactly when   *)
(* the paths one step further are in the map.  {} is the empty map.        *)
(***************************************************************************)
MaxDepth == 3

\* (mutant) the depth is taken as asked
NoClamp(depth) == depth

\* if depth > 3: depth = 3
ClampDepth(depth) == IF depth > MaxDepth THEN MaxDepth ELSE depth

\* the non-recursive term of the CTE pedigree
PedigreeBase(horse_id) ==
    IF horse_id \in DOMAIN um
    THEN {[horse_id |-> Some(horse_id), horse_name |-> Trim(um[horse_id].bamei),
           sire_id |-> um[horse_id].ketto_joho_01a,
           sire_name |-> Trim(um[horse_id].ketto_joho_01b),
           dam_id |-> um[horse_id].ketto_joho_02a,
           dam_name |-> Trim(um[horse_id].ketto_joho_02b),
           generation |-> 1, position |-> <<"1">>]}
    ELSE {}

\* a recursive term: the row of the ancestor `id` (named `name`) of the row p,
\* LEFT JOINed to its own jvd_um row (NULLs when it has none)
PedigreeStep(p, id, name, digit) ==
    LET known == Val(id) \in DOMAIN um
    IN  [horse_id |-> id, horse_name |-> name,
         sire_id |-> IF known THEN um[Val(id)].ketto_joho_01a ELSE NULL,
         sire_name |-> IF known THEN Trim(um[Val(id)].ketto_joho_01b) ELSE NULL,
         dam_id |-> IF known THEN um[Val(id)].ketto_joho_02a ELSE NULL,
         dam_name |-> IF known THEN Trim(um[Val(id)].ketto_joho_02b) ELSE NULL,
         generation |-> p.generation + 1,
         position |-> p.position \o <<digit>>]

\* WHERE p.generation < depth AND p.<x>_id != '0000000000' AND p.<x>_id IS NOT NULL
PedigreeExpands(p, id, depth) ==
    p.generation < depth /\ SqlNe(id, UnknownAncestor) /\ ~IsNull(id)

\* both recursive terms applied to the rows S of one iteration
PedigreeExpand(S, depth) ==
    {PedigreeStep(p, p.sire_id, p.sire_name, "1") :
        p \in {q \in S : PedigreeExpands(q, q.sire_id, depth)}}
    \cup
    {PedigreeStep(p, p.dam_id, p.dam_name, "2") :
        p \in {q \in S : PedigreeExpands(q, q.dam_id, depth)}}

\* WITH RECURSIVE pedigree: the rows of S and all that follow from them
RECURSIVE PedigreeClosure(_, _)
PedigreeClosure(S, depth) ==
    IF S = {} THEN {} ELSE S \cup PedigreeClosure(PedigreeExpand(S, depth), depth)

\* text order of two positions of the same length ('1' before '2')
PositionLess(p, q) ==
    \E i \in 1..Len(p) :
        /\ i <= Len(q)
        /\ p[i] = "1" /\ q[i] = "2"
        /\ \A j \in 1..(i - 1) : p[j] = q[j]

\* (mutant) the deepest generation first
PedigreeDeepestFirst(a, b) ==
    \/ a.generation > b.generation
    \/ a.generation = b.generation /\ PositionLess(a.position, b.position)

\* ORDER BY generation, position
PedigreeBefore(a, b) ==
    \/ a.generation < b.generation
    \/ a.generation = b.generation /\ PositionLess(a.position, b.position)

RECURSIVE PedigreeSort(_)
PedigreeSort(S) ==
    IF S = {} THEN <<>>
    ELSE LET m == CHOOSE x \in S : \A y \in S \ {x} : PedigreeBefore(x, y)
         IN  <<m>> \o PedigreeSort(S \ {m})

\* the rows pd.read_sql answers
PedigreeFrame(horse_id, depth) ==
    PedigreeSort(PedigreeClosure(PedigreeBase(horse_id), depth))

\* the keys the loop follows for the position characters cs
RECURSIVE PathOf(_)
PathOf(cs) ==
    IF cs = <<>> THEN <<>>
    ELSE <<IF Head(cs) = "1" THEN "sire" ELSE "dam">> \o PathOf(Tail(cs))

IsPrefix(p, q) == Len(p) <= Len(q) /\ SubSeq(q, 1, Len(p)) = p

\* the dict {'id': ..., 'name': ...} put at the path `at`, with 'sire' and 'dam'
\* entries when withParents
NodeAt(at, row, withParents) ==
    (at :> [id |-> row.horse_id, name |-> row.horse_name])
    @@ (IF withParents
        THEN ((at \o <<"sire">>) :> [id |-> row.sire_id, name |-> row.sire_name])
             @@ ((at \o <<"dam">>) :> [id |-> row.dam_id, name |-> row.dam_name])
        ELSE <<>>)

\* current = tree; for c in parent_pos[1:]: current = current['sire' or 'dam']:
\* every step must find its key (KeyError otherwise)
WalkFinds(tree, path) ==
    \A n \in 1..Len(path) : SubSeq(path, 1, n) \in DOMAIN tree

\* current['sire' or 'dam'] = node: what was under the key is replaced
Attach(tree, at, node) ==
    LET kept == {q \in DOMAIN tree : ~IsPrefix(at, q)}
    IN  node @@ [q \in kept |-> tree[q]]

\* one turn of the loop over df.iterrows(); the state is the tree so far and
\* whether an exception has left the loop
ReshapeRow(st, row, depth) ==
    IF st.raised THEN st
    ELSE IF row.generation = 1
         THEN [raised |-> FALSE, tree |-> NodeAt(<<>>, row, TRUE)]
    ELSE LET pos == row.position
             parent_pos == SubSeq(pos, 1, Len(pos) - 1)
             is_sire == pos[Len(pos)] = "1"
             path == PathOf(Tail(parent_pos))
             at == path \o <<IF is_sire THEN "sire" ELSE "dam">>
         IN  IF ~WalkFinds(st.tree, path) THEN [raised |-> TRUE, tree |-> st.tree]
             ELSE [raised |-> FALSE,
                   tree |-> Attach(st.tree, at, NodeAt(at, row, row.generation < depth))]

RECURSIVE Reshape(_, _, _)
Reshape(st, df, depth) ==
    IF df = <<>> THEN st ELSE Reshape(ReshapeRow(st, Head(df), depth), Tail(df), depth)

\* {}
EmptyTree == <<>>

\* the body of the try
PedigreeBody(horse_id, depth, fails) ==
    IF 1 \in fails THEN Raises
    ELSE LET df == PedigreeFrame(horse_id, depth)
         IN  IF df = EmptyFrame THEN Returns(EmptyTree)
             ELSE LET st == Reshape([raised |-> FALSE, tree |-> EmptyTree], df, depth)
                  IN  IF st.raised THEN Raises ELSE Returns(st.tree)

\* (mutant) the handler lets the exception through
PedigreeHandlerReraises(r) == r

\* except Exception: return {}
PedigreeHandler(r) == IF r.raised THEN Returns(EmptyTree) ELSE r

get_pedigree_tree(horse_id, depth, fails) ==
    /\ op = NoOp
    /\ op' = [name |-> "get_pedigree_tree", horse_id |-> horse_id, depth |-> depth,
              fails |-> fails]
    /\ result' = PedigreeHandler(PedigreeBody(horse_id, ClampDepth(depth), fails))
    /\ UNCHANGED <<um, db, sire_ranking>>

(***************************************************************************)
(* The data the model runs on.                                             *)
(***************************************************************************)
Chars(a, b) == <<a, b>>

\* a jvd_se row joined to its jvd_ra row
RaceRow(runner, race, outcome) ==
    [ketto_toroku_bango |-> runner.horse,
     kishu_code |-> runner.jockey,
     kishumei_ryakusho |-> runner.jockey_name,
     keibajo_code |-> race.keibajo_code,
     track_code |-> race.track_code,
     babajotai_code_shiba |-> race.shiba,
     babajotai_code_dirt |-> race.dirt,
     kyori |-> race.kyori,
     kaisai_nen |-> race.kaisai_nen,
     kakutei_chakujun |-> outcome.chakujun,
     tansho_odds |-> outcome.odds,
     tansho_ninkijun |-> outcome.ninkijun]

\* the registry: H1 and H3 by the sire S1 (whose name H3's row pads with a
\* blank), H2 by S2, H0 by an unknown sire; S1's line is registered for three
\* more generations, the dams are not registered
BaseRegistry ==
    ("H1" :> UmRow(Some(<<"a">>), Some("S1"), Some(<<"s">>), Some("D1"), Some(<<"d">>)))
    @@ ("H2" :> UmRow(Some(<<"b">>), Some("S2"), Some(<<"t">>), Some("D1"), Some(<<"d">>)))
    @@ ("H3" :> UmRow(Some(<<"c">>), Some("S1"), Some(<<"s", " ">>), Some(UnknownAncestor), Some(<<>>)))
    @@ ("H0" :> UmRow(Some(<<"z">>), Some(UnknownAncestor), Some(<<>>), Some("D1"), Some(<<"d">>)))
    @@ ("S1" :> UmRow(Some(<<"s">>), Some("G1"), Some(<<"g">>), Some("D2"), Some(<<"e">>)))
    @@ ("G1" :> UmRow(Some(<<"g">>), Some("F1"), Some(<<"f">>), Some(UnknownAncestor), Some(<<>>)))
    @@ ("F1" :> UmRow(Some(<<"f">>), Some("E1"), Some(<<"h">>), Some("D3"), Some(<<"i">>)))

Runner(h, j) == [horse |-> h, jockey |-> j, jockey_name |-> Some(<<j, " ">>)]

\* Tokyo, turf (the dirt going is set too and must be ignored), 1600 m, 2005
TokyoTurf ==
    [keibajo_code |-> "05", track_code |-> Chars("1", "1"), shiba |-> "1", dirt |-> "4",
     kyori |-> 1600, kaisai_nen |-> 2005]

\* Hanshin, dirt, heavy going, 1200 m, 1999
HanshinDirt ==
    [keibajo_code |-> "09", track_code |-> Chars("2", "3"), shiba |-> "1", dirt |-> "4",
     kyori |-> 1200, kaisai_nen |-> 1999]

Outcome(c, o, n) == [chakujun |-> c, odds |-> o, ninkijun |-> n]

\* finishes that count: a win at 3.0, a second place, an unplaced longshot
ValidOutcomes ==
    {Outcome(Chars("0", "1"), Some(30), Some(1)),
     Outcome(Chars("0", "2"), Some(55), Some(5)),
     Outcome(Chars("0", "5"), Some(120), Some(9))}

\* the rival's finishes: a winning favourite, a beaten second favourite, and
\* a winner whose popularity rank was stored as 0
RivalOutcomes ==
    {Outcome(Chars("0", "1"), Some(30), Some(1)),
     Outcome(Chars("0", "4"), Some(20), Some(2)),
     Outcome(Chars("0", "1"), Some(80), Some(0))}

\* finishes the queries must leave out: the two sentinel codes, a position
\* that is not a number, a win with no odds
ExcludedOutcomes ==
    {Outcome(Chars("9", "9"), Some(30), Some(1)),
     Outcome(Chars("0", "0"), Some(30), Some(1)),
     Outcome(Chars("0", "A"), Some(30), Some(1)),
     Outcome(Chars("0", "1"), NULL, Some(1))}

Races ==
    {RaceRow(Runner("H1", "J1"), rc, oc) : rc \in {TokyoTurf, HanshinDirt}, oc \in ValidOutcomes}
    \cup
    {RaceRow(Runner("H2", "J2"), TokyoTurf, oc) : oc \in RivalOutcomes}
    \cup
    {RaceRow(Runner("H0", "J1"), TokyoTurf, oc) : oc \in ValidOutcomes}
    \cup
    {RaceRow(Runner("H1", "J1"), TokyoTurf, oc) : oc \in ExcludedOutcomes}

\* how many equal rows arrive together
BatchSizes == {10, 15, 20}

\* the most kinds of row the data source comes to hold
MaxRowKinds == 2

\* rows reach the data source: n equal rows r that it did not hold
InsertRaces(universe, sizes) ==
    /\ op = NoOp
    /\ Cardinality(DOMAIN db) < MaxRowKinds
    /\ \E r \in universe \ DOMAIN db : \E n \in sizes : db' = db @@ (r :> n)
    /\ UNCHANGED <<um, op, result, sire_ranking>>

\* the caller takes the returned value; the next call starts afresh
Return ==
    /\ op # NoOp
    /\ op' = NoOp
    /\ result' = Returns(NULL)
    /\ sire_ranking' = <<>>
    /\ UNCHANGED <<um, db>>

(***************************************************************************)
(* The specification of the whole interface: rows arrive, and any of the   *)
(* seven public operations is called, any of its queries failing.          *)
(***************************************************************************)
Init ==
    /\ um = BaseRegistry
    /\ db = EmptyBag
    /\ op = NoOp
    /\ result = Returns(NULL)
    /\ sire_ranking = <<>>

SinceYears == {2000}

MinRacesArgs == {15, 20}

HorseArgs == {"H1", "H2", "H0", "HX"}

SegmentArgs == {<<"shiba", "ryo">>, <<"dirt", "furyo">>}

DepthArgs == {1, 2, 3, 5}

\* the horses whose pedigree is asked for: one with three registered
\* generations of sires, one with an unknown dam, one with an unknown sire,
\* one that is not registered
PedigreeHorseArgs == {"H1", "H3", "H0", "HX"}

\* the queries of a call that fail: none, or one of the n it may issue (a call
\* issues no query after one that failed, the rank query being the last)
Fails(n) == {{}} \cup {{i} : i \in 1..n}

Next ==
    \/ InsertRaces(Races, BatchSizes)
    \/ Return
    \/ \E y \in SinceYears, m \in MinRacesArgs, f \in Fails(1) :
          get_sire_track_condition_roi(y, m, f)
    \/ \E h \in HorseArgs, sg \in SegmentArgs, f \in Fails(3) :
          get_horse_sire_track_roi_feature(h, sg[1], sg[2], f)
    \/ \E h \in PedigreeHorseArgs, d \in DepthArgs, f \in Fails(1) :
          get_pedigree_tree(h, d, f)
    \/ \E y \in SinceYears, m \in MinRacesArgs, f \in Fails(1) :
          get_jockey_course_roi(y, m, f)
    \/ \E y \in SinceYears, m \in MinRacesArgs, f \in Fails(1) :
          get_jockey_popularity_roi(y, m, f)
    \/ \E y \in SinceYears, m \in MinRacesArgs, f \in Fails(1) :
          get_jockey_surface_condition_roi(y, m, f)
    \/ \E j \in {"J1", "J3"}, f \in Fails(1) :
          get_jockey_course_feature(j, "Tokyo", "shiba", "chukyori", f)

Spec == Init /\ [][Next]_vars

(***************************************************************************)
(* The going of a race: the data source holds the races of one meeting,    *)
(* of any surface and with any pair of going codes, and the operations     *)
(* that label the going are called.                                        *)
(***************************************************************************)
\* first characters of track_code: turf, dirt, and one that is neither
SurfaceCodes == {"1", "2", "5"}

\* values of babajotai_code_shiba and babajotai_code_dirt: the four goings
\* and one code that names none
GoingCodes == {"0", "1", "2", "3", "4"}

\* twenty wins of H1 in races of one surface and one pair of going codes
GoingRaces ==
    {RaceRow(Runner("H1", "J1"),
             [keibajo_code |-> "05", track_code |-> Chars(t, "1"), shiba |-> s, dirt |-> d,
              kyori |-> 1600, kaisai_nen |-> 2005],
             Outcome(Chars("0", "1"), Some(30), Some(1))) :
        t \in SurfaceCodes, s \in GoingCodes, d \in GoingCodes}

GoingInit ==
    /\ um = BaseRegistry
    /\ db \in {r :> 20 : r \in GoingRaces}
    /\ op = NoOp
    /\ result = Returns(NULL)
    /\ sire_ranking = <<>>

TrackTypeArgs == {"shiba", "dirt", "sonota"}

ConditionArgs == {"ryo", "yayaomo", "omo", "furyo", "fumei"}

GoingNext ==
    \/ Return
    \/ get_sire_track_condition_roi(2000, 20, {})
    \/ \E t \in TrackTypeArgs, c \in ConditionArgs :
          get_horse_sire_track_roi_feature("H1", t, c, {})
    \/ get_jockey_surface_condition_roi(2000, 20, {})

GoingSpec == GoingInit /\ [][GoingNext]_vars

(***************************************************************************)
(* The pedigree of a horse: the registry holds a horse with any of several *)
(* sires and dams, registered or not, known or not, and                    *)
(* get_pedigree_tree is called on it.                                      *)
(***************************************************************************)
\* the name jvd_um holds beside an ancestor's id
AncestorName(id) ==
    IF IsNull(id) THEN NULL
    ELSE IF Val(id) = UnknownAncestor THEN Some(<<>>)
    ELSE Some(<<Val(id)>>)

\* the jvd_um row of the horse id, by the sire sid out of the dam did
Registered(id, sid, did) ==
    id :> UmRow(Some(<<id>>), sid, AncestorName(sid), did, AncestorName(did))

\* H1 with a known or unknown sire S1 and a known, unknown or missing dam
\* D1; S1, D1 and S1's sire G1 each registered or not
PedigreeRegistries ==
    {Registered("H1", s, d) @@ rs @@ rd @@ rg :
        s \in {Some("S1"), Some(UnknownAncestor)},
        d \in {Some("D1"), Some(UnknownAncestor), NULL},
        rs \in {<<>>} \cup {Registered("S1", g, Some("D2")) : g \in {Some("G1"), Some(UnknownAncestor)}},
        rd \in {<<>>} \cup {Registered("D1", Some("G2"), g) : g \in {Some("D3"), NULL}},
        rg \in {<<>>, Registered("G1", Some("F1"), Some("D4"))}}

PedigreeInit ==
    /\ um \in PedigreeRegistries
    /\ db = EmptyBag
    /\ op = NoOp
    /\ result = Returns(NULL)
    /\ sire_ranking = <<>>

PedigreeNext ==
    \/ Return
    \/ \E h \in {"H1", "S1", "HX"}, d \in DepthArgs, f \in Fails(1) :
          get_pedigree_tree(h, d, f)

PedigreeSpec == PedigreeInit /\ [][PedigreeNext]_vars

(***************************************************************************)
(* The sire rollup beside the sire resolver: the data source holds races   *)
(* of one segment, run before and after the year the rollup starts from,   *)
(* by two horses of one sire and a horse of another.                       *)
(***************************************************************************)
\* the Tokyo turf race of 1999
TokyoTurf1999 == [TokyoTurf EXCEPT !.kaisai_nen = 1999]

AgreementRaces ==
    {RaceRow(Runner(h, "J1"), TokyoTurf, oc) : h \in {"H1", "H3"}, oc \in ValidOutcomes}
    \cup
    {RaceRow(Runner("H1", "J1"), TokyoTurf1999, oc) : oc \in ValidOutcomes}
    \cup
    {RaceRow(Runner("H2", "J2"), TokyoTurf, Outcome(Chars("0", "1"), Some(30), Some(1)))}

AgreementNext ==
    \/ InsertRaces(AgreementRaces, BatchSizes)
    \/ Return
    \/ \E y \in SinceYears, m \in MinRacesArgs :
          get_sire_track_condition_roi(y, m, {})
    \/ \E h \in {"H1", "H3", "H2"}, sg \in SegmentArgs :
          get_horse_sire_track_roi_feature(h, sg[1], sg[2], {})

AgreementSpec == Init /\ [][AgreementNext]_vars

(***************************************************************************)
(* Properties.                                                             *)
(***************************************************************************)
IsRollup(name) ==
    name \in {"get_sire_track_condition_roi", "get_jockey_course_roi",
              "get_jockey_popularity_roi", "get_jockey_surface_condition_roi"}

\* a call has returned with every query it issued answered
Answered == op # NoOp /\ op.fails = {}

\* C1: every public operation is total: whatever the arguments and whichever
\* of its queries fail, the call hands back a value and raises nothing; when
\* its (first) query fails the value is the empty table, the empty tree or
\* the zero-filled feature record.
C1_Total ==
    /\ ~result.raised
    /\ (IsRollup(op.name) /\ 1 \in op.fails) => result.value = EmptyFrame
    /\ (op.name = "get_pedigree_tree" /\ 1 \in op.fails) => result.value = EmptyTree
    /\ (op.name = "get_horse_sire_track_roi_feature" /\ 1 \in op.fails)
          => result.value = SirePlaceholder(NULL)
    /\ (op.name = "get_jockey_course_feature" /\ 1 \in op.fails)
          => /\ result.value.total_races = Some(0)
             /\ result.value.roi_percentage = Some(0)
             /\ result.value.jockey_id = op.jockey_id

\* the pedigree query failed and the call has come back with the empty tree
C1_Witness ==
    /\ op.name = "get_pedigree_tree"
    /\ op.horse_id = "H1"
    /\ 1 \in op.fails
    /\ result = Returns(EmptyTree)

IsSireFeature == op.name = "get_horse_sire_track_roi_feature"

\* the rows of the data source that count for the sire id (NULL: none) in the
\* segment the call names, counted on the data itself
SegmentRowsOf(sire_id) ==
    Where(db, LAMBDA r :
        /\ r.ketto_toroku_bango \in DOMAIN um
        /\ um[r.ketto_toroku_bango].ketto_joho_01a = sire_id
        /\ ~IsNull(sire_id)
        /\ IsNumeric(r.kakutei_chakujun)
        /\ r.kakutei_chakujun \notin {Chars("0", "0"), Chars("9", "9")}
        /\ ~IsNull(r.tansho_odds)
        /\ track_type(r) = op.race_track_type
        /\ track_condition(r) = op.race_condition)

\* the sire id of the horse the call names
SireOfCall == um[op.horse_id].ketto_joho_01a

\* a record that carries no statistics: every number 0 or missing
NoStatistics(v) ==
    /\ v.sire_track_races = Some(0)
    /\ v.sire_track_roi \in {Some(0), NULL}
    /\ v.sire_track_win_rate \in {Some(0), NULL}
    /\ v.sire_track_roi_rank = Some(0)

RollupPopulation ==
    CASE op.name = "get_sire_track_condition_roi" -> sire_track_results(op.since_year)
      [] op.name = "get_jockey_course_roi" -> jockey_course_results(op.since_year)
      [] op.name = "get_jockey_popularity_roi" -> jockey_popularity_results(op.since_year)
      [] op.name = "get_jockey_surface_condition_roi" -> jockey_surface_results(op.since_year)

RollupKey(r) ==
    CASE op.name = "get_sire_track_condition_roi" -> SireGroupKey(r)
      [] op.name = "get_jockey_course_roi" -> JockeyCourseKey(r)
      [] op.name = "get_jockey_popularity_roi" -> JockeyPopularityKey(r)
      [] op.name = "get_jockey_surface_condition_roi" -> JockeySurfaceKey(r)

\* the key columns of a returned row
KeyOfRow(row) ==
    CASE op.name = "get_sire_track_condition_roi" ->
            [sire_id |-> row.sire_id, sire_name |-> row.sire_name,
             track_type |-> row.track_type, track_condition |-> row.track_condition]
      [] op.name = "get_jockey_course_roi" ->
            [jockey_id |-> row.jockey_id, jockey_name |-> row.jockey_name,
             course_name |-> row.course_name, track_type |-> row.track_type,
             distance_category |-> row.distance_category]
      [] op.name = "get_jockey_popularity_roi" ->
            [jockey_id |-> row.jockey_id, jockey_name |-> row.jockey_name,
             popularity_category |-> row.popularity_category]
      [] op.name = "get_jockey_surface_condition_roi" ->
            [jockey_id |-> row.jockey_id, jockey_name |-> row.jockey_name,
             track_type |-> row.track_type, surface_condition |-> row.surface_condition]

\* the rows of the population that fall in the group of key k
GroupRows(k) == Where(RollupPopulation, LAMBDA r : RollupKey(r) = k)

ReturnedRows == {result.value[i] : i \in 1..Len(result.value)}

\* C3: a rollup returns no group with fewer than min_races races, and returns
\* every group that has at least min_races, once, with its number of races.
C3_MinRacesFilter ==
    (IsRollup(op.name) /\ Answered) =>
        /\ \A row \in ReturnedRows : row.total_races >= op.min_races
        /\ \A r \in DOMAIN RollupPopulation :
              Count(GroupRows(RollupKey(r))) >= op.min_races
                 => \E row \in ReturnedRows :
                       /\ KeyOfRow(row) = RollupKey(r)
                       /\ row.total_races = Count(GroupRows(RollupKey(r)))
        /\ Cardinality(ReturnedRows) = Len(result.value)

\* a rollup has returned one group that has exactly min_races races and left
\* out another that has fewer
C3_Witness ==
    /\ op.name = "get_jockey_course_roi"
    /\ Answered
    /\ Len(result.value) = 1
    /\ result.value[1].total_races = op.min_races
    /\ Cardinality({RollupKey(r) : r \in DOMAIN RollupPopulation}) = 2

\* a record the claim C4 is about: finish position not a number, or one of
\* the sentinel codes, or no win odds
ExcludedRow(r) ==
    \/ ~IsNumeric(r.kakutei_chakujun)
    \/ r.kakutei_chakujun \in {Chars("0", "0"), Chars("9", "9")}
    \/ IsNull(r.tansho_odds)

\* the number of rows of the bag G whose finish position is among `places`
Finishes(G, places) ==
    SumFn([r \in {x \in DOMAIN G : x.kakutei_chakujun \in places} |-> G[r]])

\* the segment rows of the jockey feature call, counted on the data itself
JockeySegmentRowsOfCall ==
    Where(db, LAMBDA r :
        /\ ~ExcludedRow(r)
        /\ r.kishu_code = op.jockey_id
        /\ r.keibajo_code = course_code(op.course_name)
        /\ track_type(r) = op.track_type
        /\ distance_category(r) = op.distance_category)

IsJockeyFeature == op.name = "get_jockey_course_feature"

\* the records that may count for a rollup call in the group of key k, taken
\* from the data itself: of the years asked for, of a registered horse in the
\* sire rollup, of a known popularity in the popularity rollup, and none of
\* them an ExcludedRow
CountedRows(k) ==
    Where(db, LAMBDA r :
        /\ ~ExcludedRow(r)
        /\ r.kaisai_nen >= op.since_year
        /\ op.name = "get_sire_track_condition_roi" => r.ketto_toroku_bango \in DOMAIN um
        /\ op.name = "get_jockey_popularity_roi" => ~IsNull(r.tansho_ninkijun)
        /\ RollupKey(r) = k)

\* every sire id of the registry, the marker of an unknown sire included
SireIdsOfRegistry == {um[h].ketto_joho_01a : h \in DOMAIN um} \ {NULL}

\* C4: a record whose finish position is not a number or is "00" or "99", or
\* whose win odds are null, counts in no aggregate: the rows every query
\* aggregates (a matter of the data alone, looked at between calls) hold no
\* such record; the races and wins of every rollup group,
\* of the sire's segment and of the jockey's segment and overall baseline are
\* the numbers of the other records; and the sires ranked in a segment are
\* those with 20 of the other records.
C4_ExcludedRowsCountNowhere ==
    /\ op = NoOp =>
          /\ \A y \in SinceYears :
                \A r \in DOMAIN sire_track_results(y) \cup DOMAIN jockey_course_results(y)
                           \cup DOMAIN jockey_popularity_results(y)
                           \cup DOMAIN jockey_surface_results(y) : ~ExcludedRow(r)
          /\ \A sg \in SegmentArgs :
                /\ \A r \in DOMAIN RankSegmentResults(sg[1], sg[2]) : ~ExcludedRow(r)
                /\ \A sid \in SireIdsOfRegistry :
                      \A r \in DOMAIN SireSegmentResults(sid, sg[1], sg[2]) : ~ExcludedRow(r)
          /\ \A j \in {"J1", "J2", "J3"} :
                \A r \in DOMAIN jockey_all_stats(j)
                           \cup DOMAIN jockey_course_stats(j, "Tokyo", "shiba", "chukyori") :
                    ~ExcludedRow(r)
    /\ (IsRollup(op.name) /\ Answered) =>
          \A row \in ReturnedRows :
              /\ row.total_races = Count(CountedRows(KeyOfRow(row)))
              /\ row.wins = Finishes(CountedRows(KeyOfRow(row)), {Chars("0", "1")})
    /\ (IsSireFeature /\ op.fails \cap {1, 2} = {} /\ op.horse_id \in DOMAIN um) =>
          result.value.sire_track_races = Some(Count(SegmentRowsOf(SireOfCall)))
    /\ (IsSireFeature /\ Answered /\ op.horse_id \in DOMAIN um) =>
          DOMAIN sire_ranking
              = {sid \in SireIdsOfRegistry : Count(SegmentRowsOf(sid)) >= RankMinRaces}
    /\ (IsJockeyFeature /\ Answered) =>
          /\ result.value.total_races = Some(Count(JockeySegmentRowsOfCall))
          /\ "all_total_races" \in DOMAIN result.value =>
                result.value.all_total_races
                    = Some(Count(Where(db, LAMBDA r :
                                    ~ExcludedRow(r) /\ r.kishu_code = op.jockey_id)))

\* the sire rollup has answered over twenty sentinel-coded records and twenty
\* wins of the same sire on the same segment, and counts the twenty wins only
C4_Witness ==
    /\ op.name = "get_sire_track_condition_roi"
    /\ Answered
    /\ RaceRow(Runner("H1", "J1"), TokyoTurf, Outcome(Chars("9", "9"), Some(30), Some(1)))
          \in DOMAIN db
    /\ \E r \in DOMAIN db : ~ExcludedRow(r) /\ r.ketto_toroku_bango = "H1" /\ db[r] = 20
    /\ Len(result.value) = 1
    /\ result.value[1].total_races = 20

\* h is the hundredths of num / den * 100 rounded to two decimals
IsRoundedPct(h, num, den) ==
    /\ 2 * (h * den - 10000 * num) <= den
    /\ 2 * (10000 * num - h * den) < den

\* C5: in every group a rollup returns, 0 <= wins <= top3_finishes <=
\* total_races (the sire rollup has no top3_finishes column: wins <=
\* total_races), wins and top3_finishes count the group's first places and
\* its first three places, and win_rate is wins / total_races * 100 rounded
\* to two decimals.
C5_CountsAndWinRate ==
    (IsRollup(op.name) /\ Answered) =>
        \A row \in ReturnedRows :
            LET G == GroupRows(KeyOfRow(row))
            IN  /\ row.total_races > 0
                /\ row.wins = Finishes(G, {Chars("0", "1")})
                /\ 0 <= row.wins /\ row.wins <= row.total_races
                /\ "top3_finishes" \in DOMAIN row =>
                      /\ row.top3_finishes
                            = Finishes(G, {Chars("0", "1"), Chars("0", "2"), Chars("0", "3")})
                      /\ row.wins <= row.top3_finishes
                      /\ row.top3_finishes <= row.total_races
                /\ ~IsNull(row.win_rate)
                /\ IsRoundedPct(Val(row.win_rate), row.wins, row.total_races)

\* the jockey course rollup has returned a group of 35 races with 15 wins and
\* 20 second places: win rate 42.86
C5_Witness ==
    /\ op.name = "get_jockey_course_roi"
    /\ Answered
    /\ \E row \in ReturnedRows :
          /\ row.total_races = 35
          /\ row.wins = 15
          /\ row.top3_finishes = 35
          /\ row.win_rate = Some(4286)

\* the raw odds (tenths) of the winning rows of the bag G, summed
WinnerRawOdds(G) ==
    SumFn([r \in {x \in DOMAIN G : x.kakutei_chakujun = Chars("0", "1")} |->
              Val(r.tansho_odds) * G[r]])

\* h is the hundredths of (raw / 10) / den * 100 rounded to two decimals
IsRoundedRoi(h, raw, den) ==
    /\ 2 * (h * den - 1000 * raw) <= den
    /\ 2 * (1000 * raw - h * den) < den

\* C6: in every group a rollup returns, and in the record of the sire
\* resolver when the segment has races, roi_percentage is (the sum over the
\* winning records of raw odds / 10) / total_races * 100 rounded to two
\* decimals, the losing records adding nothing.
C6_RoiFormula ==
    /\ (IsRollup(op.name) /\ Answered) =>
          \A row \in ReturnedRows :
              /\ ~IsNull(row.roi_percentage)
              /\ IsRoundedRoi(Val(row.roi_percentage),
                              WinnerRawOdds(GroupRows(KeyOfRow(row))), row.total_races)
    /\ (IsSireFeature /\ op.fails \cap {1, 2} = {} /\ op.horse_id \in DOMAIN um
           /\ Count(SegmentRowsOf(SireOfCall)) > 0) =>
          /\ ~IsNull(result.value.sire_track_roi)
          /\ IsRoundedRoi(Val(result.value.sire_track_roi),
                          WinnerRawOdds(SegmentRowsOf(SireOfCall)),
                          Count(SegmentRowsOf(SireOfCall)))

\* the sire rollup has returned the group of 25 turf/good races of the sire S1
\* with 10 wins at raw odds 30: win rate 40.00, ROI 120.00
C6_Witness ==
    /\ op.name = "get_sire_track_condition_roi"
    /\ Answered
    /\ Len(result.value) = 1
    /\ result.value[1].sire_id = Some("S1")
    /\ result.value[1].track_type = "shiba"
    /\ result.value[1].track_condition = "ryo"
    /\ result.value[1].total_races = 25
    /\ result.value[1].wins = 10
    /\ result.value[1].win_rate = Some(4000)
    /\ result.value[1].roi_percentage = Some(12000)

\* the sires of the registry: the sire ids its horses name, the marker of an
\* unknown sire apart
RegisteredSires ==
    {um[h].ketto_joho_01a : h \in DOMAIN um} \ {Some(UnknownAncestor), NULL}

\* the sires with at least the minimum of races that count in the segment of
\* the call
QualifyingSires == {s \in RegisteredSires : Count(SegmentRowsOf(s)) >= RankMinRaces}

\* the ROI of a sire in the segment of the call, in thousandths, times the
\* number of its races
SegmentRoiLess(s, t) ==
    WinnerRawOdds(SegmentRowsOf(s)) * Count(SegmentRowsOf(t))
        < WinnerRawOdds(SegmentRowsOf(t)) * Count(SegmentRowsOf(s))

\* C7: the rank computation of a segment numbers exactly the K sires with at
\* least 20 races that count in the segment, with the distinct integers 1..K,
\* a sire of strictly higher ROI before one of lower ROI; the sire of the call
\* gets rank 0 when it is below the threshold.
C7_RanksExactlyQualifyingSires ==
    (IsSireFeature /\ Answered /\ op.horse_id \in DOMAIN um) =>
        /\ DOMAIN sire_ranking = QualifyingSires
        /\ {sire_ranking[s] : s \in DOMAIN sire_ranking} = 1..Cardinality(QualifyingSires)
        /\ \A s \in DOMAIN sire_ranking : \A t \in DOMAIN sire_ranking :
              SegmentRoiLess(s, t) => sire_ranking[t] < sire_ranking[s]
        /\ SireOfCall \notin QualifyingSires
              => result.value.sire_track_roi_rank = Some(0)

\* C8: when the entity of the call has no race that counts in the segment,
\* the record has ROI 0.0, rank 0 and every count 0: for the sire resolver
\* when the horse's sire is known, and for the jockey feature.
C8_NoRacesGivesZeroRecord ==
    /\ (IsSireFeature /\ Answered /\ op.horse_id \in DOMAIN um
           /\ SireOfCall \in RegisteredSires
           /\ Count(SegmentRowsOf(SireOfCall)) = 0) =>
          /\ result.value.sire_track_roi = Some(0)
          /\ result.value.sire_track_races = Some(0)
          /\ result.value.sire_track_roi_rank = Some(0)
    /\ (IsJockeyFeature /\ Answered /\ Count(JockeySegmentRowsOfCall) = 0) =>
          /\ result.value.roi_percentage = Some(0)
          /\ result.value.total_races = Some(0)
          /\ result.value.wins = Some(0)

\* the call is about an entity with at least one race in the segment and
\* fewer than the minimum
SmallSireSample ==
    /\ IsSireFeature /\ Answered /\ op.horse_id \in DOMAIN um
    /\ Count(SegmentRowsOf(SireOfCall)) \in 1..(RankMinRaces - 1)

SmallJockeySample ==
    /\ IsJockeyFeature /\ Answered
    /\ Count(JockeySegmentRowsOfCall) \in 1..(RankMinRaces - 1)

C10_RankedIffEnoughRaces ==
    (IsSireFeature /\ Answered) =>
        (result.value.sire_track_roi_rank # Some(0)
            <=> Val(result.value.sire_track_races) >= RankMinRaces)

\* the resolver has answered for a sire with 20 races in a segment where
\* another sire is ranked too, and the sire is ranked second
C10_Witness ==
    /\ IsSireFeature /\ Answered
    /\ op.horse_id = "H1"
    /\ result.value.sire_track_races = Some(20)
    /\ result.value.sire_track_roi_rank = Some(2)
    /\ Cardinality(DOMAIN sire_ranking) = 2

\* C11: the rank is a function of the data: on the data of a call that was
\* answered, every numbering the rank query may give (so the answer to any
\* other call with the same arguments on the same data) holds the rank that
\* was returned, sires of equal ROI included.
C11_RankDeterminedByData ==
    (IsSireFeature /\ Answered /\ op.horse_id \in DOMAIN um) =>
        \A f \in SireRankings(op.race_track_type, op.race_condition) :
            RoiRank(f, SireOfCall, {}) = result.value.sire_track_roi_rank

\* every race of the jockey of the call that counts, whatever the segment
JockeyAllRowsOfCall ==
    Where(db, LAMBDA r : ~ExcludedRow(r) /\ r.kishu_code = op.jockey_id)

\* the win rate and the ROI of a bag of races that is not empty, in
\* hundredths of a percent, rounded half up
WinRateOf(G) ==
    (2 * 10000 * Finishes(G, {Chars("0", "1")}) + Count(G)) \div (2 * Count(G))

RoiOf(G) == (2 * 1000 * WinnerRawOdds(G) + Count(G)) \div (2 * Count(G))

\* the hundredths of a / b rounded to two decimals, NULL on b = 0
QuotientOf(a, b) == IF b = 0 THEN NULL ELSE Some((2 * 100 * a + b) \div (2 * b))

\* whether the jockey of the call has an overall figure that is not zero
HasOverallRoi == Count(JockeyAllRowsOfCall) > 0 /\ RoiOf(JockeyAllRowsOfCall) # 0

HasOverallWinRate == Count(JockeyAllRowsOfCall) > 0 /\ WinRateOf(JockeyAllRowsOfCall) # 0

\* C12 as claimed: the aptitude index is the segment ROI over the overall
\* ROI and the win-rate ratio the segment win rate over the overall win rate,
\* each null whenever its denominator is zero or absent.
C12_RatiosNullWithoutDenominator ==
    (IsJockeyFeature /\ Answered) =>
        /\ ~HasOverallRoi => result.value.course_aptitude_index = NULL
        /\ ~HasOverallWinRate => result.value.win_rate_ratio = NULL

\* C12 as amended: when the jockey has races in the segment, the aptitude
\* index is the segment ROI over the overall ROI and the win-rate ratio the
\* segment win rate over the overall win rate, each rounded to two decimals
\* and null when its denominator is zero; when the jockey has no race in the
\* segment (the overall figures absent or not) both are 0.0.
C12_RatiosOfSegmentToOverall ==
    (IsJockeyFeature /\ Answered) =>
        IF Count(JockeySegmentRowsOfCall) > 0
        THEN /\ result.value.course_aptitude_index
                   = QuotientOf(RoiOf(JockeySegmentRowsOfCall), RoiOf(JockeyAllRowsOfCall))
             /\ result.value.win_rate_ratio
                   = QuotientOf(WinRateOf(JockeySegmentRowsOfCall),
                                WinRateOf(JockeyAllRowsOfCall))
        ELSE /\ result.value.course_aptitude_index = Some(0)
             /\ result.value.win_rate_ratio = Some(0)

\* the jockey has 20 races in the segment and has never won: both ratios null
C12_Witness ==
    /\ IsJockeyFeature /\ Answered
    /\ result.value.total_races = Some(20)
    /\ result.value.all_roi_percentage = Some(0)
    /\ result.value.course_aptitude_index = NULL
    /\ result.value.win_rate_ratio = NULL

IsPedigree == op.name = "get_pedigree_tree"

\* C13: a call of get_pedigree_tree with a depth above 3 returns the tree the
\* call with depth 3 returns for the same horse on the same registry.
C13_DepthClamped ==
    (IsPedigree /\ Answered /\ op.depth > 3) =>
        result = PedigreeHandler(PedigreeBody(op.horse_id, ClampDepth(3), {}))

\* depth 5 was asked for a horse with four registered generations: the tree
\* holds the sire's sire (generation 3) and nothing under it
C13_Witness ==
    /\ IsPedigree /\ Answered
    /\ op.depth = 5
    /\ op.horse_id = "H1"
    /\ <<"sire", "sire">> \in DOMAIN result.value
    /\ result.value[<<"sire", "sire">>].id = Some("G1")
    /\ "F1" \in DOMAIN um
    /\ <<"sire", "sire", "sire">> \notin DOMAIN result.value

\* the generation of the node found at the path q of a tree: the root is
\* generation 1, every 'sire' or 'dam' step adds one
GenerationAt(q) == 1 + Len(q)

\* C14: whatever depth d is asked for, d = 1 and d = 2 included, the tree
\* get_pedigree_tree returns holds no node of a generation above d.
C14_NoNodeBeyondDepth ==
    (IsPedigree /\ Answered) =>
        \A q \in DOMAIN result.value : GenerationAt(q) <= op.depth

\* C15: in the tree get_pedigree_tree returns, no sire or dam entry, at any
\* level, has the id of an unknown ancestor or no id.
C15_NoUnknownAncestorNode ==
    (IsPedigree /\ Answered) =>
        \A q \in DOMAIN result.value \ {<<>>} :
            result.value[q].id \notin {NULL, Some(UnknownAncestor)}

\* rows i < j of the returned table never have the ROI of j above that of i
\* (a null ROI counting as the lowest)
RoiDescending(df, i, j) ==
    \/ IsNull(df[j].roi_percentage)
    \/ /\ ~IsNull(df[i].roi_percentage)
       /\ Val(df[i].roi_percentage) >= Val(df[j].roi_percentage)

\* C16 as claimed: every rollup, get_jockey_popularity_roi included, returns
\* its groups in descending order of roi_percentage over the whole output,
\* nulls last.
C16_AllRollupsRoiDescending ==
    (IsRollup(op.name) /\ Answered) =>
        \A i \in 1..Len(result.value) : \A j \in 1..Len(result.value) :
            i < j => RoiDescending(result.value, i, j)

\* C16 as amended: the sire rollup, the jockey course rollup and the jockey
\* surface rollup return their groups in descending order of roi_percentage
\* over the whole output; get_jockey_popularity_roi returns the groups of one
\* popularity category together, in descending order of roi_percentage
\* within the category.  No returned group has a null roi_percentage.
C16_RoiDescendingWithinCategory ==
    (IsRollup(op.name) /\ Answered) =>
        LET df == result.value
        IN  /\ \A i \in 1..Len(df) : ~IsNull(df[i].roi_percentage)
            /\ op.name # "get_jockey_popularity_roi" =>
                  \A i \in 1..Len(df) : \A j \in 1..Len(df) :
                      i < j => RoiDescending(df, i, j)
            /\ op.name = "get_jockey_popularity_roi" =>
                  \A i \in 1..Len(df) : \A j \in 1..Len(df) :
                      /\ (i < j /\ df[i].popularity_category = df[j].popularity_category)
                            => /\ RoiDescending(df, i, j)
                               /\ \A k \in i..j :
                                     df[k].popularity_category = df[i].popularity_category

\* the popularity rollup has returned two groups of one popularity category
\* whose ROI differ
C16_Witness ==
    /\ op.name = "get_jockey_popularity_roi"
    /\ Answered
    /\ Len(result.value) = 2
    /\ result.value[1].popularity_category = result.value[2].popularity_category
    /\ Val(result.value[1].roi_percentage) > Val(result.value[2].roi_percentage)

\* the tier the popularity rank of a record stands for: 1..3 favourite,
\* 4..8 mid, 9 and above longshot, no tier for anything else
TierOfRank(p) ==
    CASE IsNull(p) -> "none"
      [] Val(p) >= 1 /\ Val(p) <= 3 -> "ninki"
      [] Val(p) >= 4 /\ Val(p) <= 8 -> "chuana"
      [] Val(p) >= 9 -> "ooana"
      [] OTHER -> "none"

\* C17: every record counted in a group of get_jockey_popularity_roi has a
\* popularity rank of the group's tier (favourite 1..3, mid 4..8, longshot 9
\* and above; a rank of 0 or below is in no tier), and the mid and longshot
\* wins of get_jockey_course_roi count the wins at ranks 4..8 and 9 and above.
C17_TierExactlyByRank ==
    /\ (op.name = "get_jockey_popularity_roi" /\ Answered) =>
           \A row \in ReturnedRows :
               \A r \in DOMAIN GroupRows(KeyOfRow(row)) :
                   TierOfRank(popularity(r)) = row.popularity_category
    /\ (op.name = "get_jockey_course_roi" /\ Answered) =>
           \A row \in ReturnedRows :
               LET G == GroupRows(KeyOfRow(row))
               IN  /\ row.middle_odds_wins =
                        CountFilter(G, LAMBDA r : IsWin(r) /\ TierOfRank(popularity(r)) = "chuana")
                   /\ row.longshot_wins =
                        CountFilter(G, LAMBDA r : IsWin(r) /\ TierOfRank(popularity(r)) = "ooana")

\* the going a code names
GoingOfCode(c) ==
    CASE c = "1" -> "ryo"
      [] c = "2" -> "yayaomo"
      [] c = "3" -> "omo"
      [] c = "4" -> "furyo"
      [] OTHER -> "fumei"

\* the going of a race, read from the field of its surface alone
GoingOfRace(r) ==
    CASE r.track_code[1] = "1" -> GoingOfCode(r.babajotai_code_shiba)
      [] r.track_code[1] = "2" -> GoingOfCode(r.babajotai_code_dirt)
      [] OTHER -> "fumei"

\* the races of the data source whose going, read that way, is c on a
\* surface of type t
RacesOfGoing(t, c) == Where(db, LAMBDA r : track_type(r) = t /\ GoingOfRace(r) = c)

\* C18: the going label of a race depends on the going code of the race's
\* surface alone (turf: the turf code, dirt: the dirt code; 1 good,
\* 2 yielding, 3 soft, 4 heavy) and is unknown for any other surface or code;
\* the sire rollup, the sire resolver, its rank query and the jockey surface
\* rollup all label the races that way.
C18_GoingBySurfaceField ==
    /\ (op.name = "get_sire_track_condition_roi" /\ Answered) =>
           /\ \A r \in DOMAIN RollupPopulation :
                  \E row \in ReturnedRows :
                      /\ row.track_type = track_type(r)
                      /\ row.track_condition = GoingOfRace(r)
           /\ \A row \in ReturnedRows :
                  row.total_races = Count(RacesOfGoing(row.track_type, row.track_condition))
    /\ (op.name = "get_jockey_surface_condition_roi" /\ Answered) =>
           /\ \A r \in DOMAIN RollupPopulation :
                  \E row \in ReturnedRows :
                      /\ row.track_type = track_type(r)
                      /\ row.surface_condition = GoingOfRace(r)
           /\ \A row \in ReturnedRows :
                  row.total_races = Count(RacesOfGoing(row.track_type, row.surface_condition))
    /\ (IsSireFeature /\ Answered) =>
           LET n == Count(RacesOfGoing(op.race_track_type, op.race_condition))
           IN  /\ result.value.sire_track_races = Some(n)
               /\ result.value.sire_track_roi_rank = (IF n >= RankMinRaces THEN Some(1) ELSE Some(0))

\* a dirt race whose two going codes name different goings has been
\* labelled by the resolver and ranked by its rank query
C18_Witness ==
    /\ IsSireFeature
    /\ Answered
    /\ \E r \in DOMAIN db :
          /\ r.track_code[1] = "2"
          /\ r.babajotai_code_dirt = "3"
          /\ r.babajotai_code_shiba = "1"
    /\ op.race_condition = "omo"
    /\ result.value.sire_track_races = Some(20)
    /\ result.value.sire_track_roi_rank = Some(1)

\* the rows get_pedigree_tree fetched for the call, in the order it loops
\* over them
FetchedRows == PedigreeFrame(op.horse_id, ClampDepth(op.depth))

\* the tree the reshape loop has built when it comes to the k-th fetched row
TreeBefore(k) ==
    Reshape([raised |-> FALSE, tree |-> EmptyTree], SubSeq(FetchedRows, 1, k - 1),
            ClampDepth(op.depth))

\* the keys from the root to the parent of the node at position pos
ParentPath(pos) == PathOf(Tail(SubSeq(pos, 1, Len(pos) - 1)))

\* C19: for every fetched row of generation > 1, taken in ascending
\* (generation, path) order, the walk of the reshape step from the root along
\* the path's characters after the first and before the last finds an
\* existing node with sire and dam entries (no key is missing), and in the
\* returned tree the node reached along all characters after the first
\* ('1' sire, '2' dam) carries the row's id and name.
C19_WalkFindsParent ==
    (IsPedigree /\ Answered) =>
        \A k \in 1..Len(FetchedRows) :
            FetchedRows[k].generation > 1 =>
                LET row == FetchedRows[k]
                    st == TreeBefore(k)
                    parent == ParentPath(row.position)
                IN  /\ ~st.raised
                    /\ WalkFinds(st.tree, parent)
                    /\ parent \in DOMAIN st.tree
                    /\ (parent \o <<"sire">>) \in DOMAIN st.tree
                    /\ (parent \o <<"dam">>) \in DOMAIN st.tree
                    /\ PathOf(Tail(row.position)) \in DOMAIN result.value
                    /\ result.value[PathOf(Tail(row.position))] =
                           [id |-> row.horse_id, name |-> row.horse_name]

\* a tree of depth 3 has been built from rows of generation 3 on the sire's
\* side and on the dam's side
C19_Witness ==
    /\ IsPedigree /\ Answered
    /\ op.depth = 3
    /\ \E k \in 1..Len(FetchedRows) : FetchedRows[k].position = <<"1", "1", "2">>
    /\ \E k \in 1..Len(FetchedRows) : FetchedRows[k].position = <<"1", "2", "1">>
    /\ result.value[<<"sire", "dam">>].id = Some("D2")
    /\ result.value[<<"dam", "sire">>].id = Some("G2")

\* the record of the resolver and the row of the rollup carry the same
\* number of races, win rate and ROI
SameStatistics(v, row) ==
    /\ v.sire_track_races = Some(row.total_races)
    /\ v.sire_track_win_rate = row.win_rate
    /\ v.sire_track_roi = row.roi_percentage

\* what get_horse_sire_track_roi_feature answers on the data source as it is
ResolverAnswer(horse_id, race_track_type, race_condition) ==
    SireFeatureHandler(
        SireFeatureBody(horse_id, race_track_type, race_condition, {}, <<>>)).value

\* C20: for every row get_sire_track_condition_roi(since_year, min_races)
\* returns, get_horse_sire_track_roi_feature for a horse of the row's sire
\* and the row's segment returns the row's total_races, win_rate and
\* roi_percentage.
C20_ResolverAgreesWithRollup ==
    /\ (op.name = "get_sire_track_condition_roi" /\ Answered) =>
           \A row \in ReturnedRows : \A h \in DOMAIN um :
               um[h].ketto_joho_01a = row.sire_id =>
                   SameStatistics(ResolverAnswer(h, row.track_type, row.track_condition), row)
    /\ (IsSireFeature /\ Answered /\ op.horse_id \in DOMAIN um) =>
           \A y \in SinceYears, m \in MinRacesArgs :
               \A row \in SireRollupRows(y, m) :
                   (/\ row.sire_id = SireOfCall
                    /\ row.track_type = op.race_track_type
                    /\ row.track_condition = op.race_condition)
                       => SameStatistics(result.value, row)

====
